---- MODULE Spec2Model ----
(***************************************************************************)
(* Model of the polling client of the Video-Translation-Simulator          *)
(* (pkg/client/client.go): one Client, its mutex and fields, and the       *)
(* goroutines net/http runs HandleStatusRequest on.                        *)
(*                                                                         *)
(* Time is counted in units of 250ms: initialDelay = 500ms = 2 units,      *)
(* maxDelay = 10s = 40 units.  The zero time.Time{} is 0 and the clock     *)
(* starts at 1, so every time.Now() is after the zero time.                *)
(***************************************************************************)
EXTENDS Integers, Sequences, FiniteSets, TLC

\* ---- bounds of the model ----------------------------------------------
\* number of goroutines that may run HandleStatusRequest concurrently
NumProcs == 2
\* last clock value (units of 250ms) the clock reaches with a free StatusSource
MaxTime == 4
\* last clock value the clock reaches in the scripted end-to-end scenario
MaxTimeE2E == 8
\* fetches a scripted StatusSource has served after which no new poll arrives
MaxServed == 5
\* the retry ceiling the model gives the client in place of NewClient's 20
DefaultMaxRetries == 3
\* successive pending polls followed when nextDelay is iterated on its own
MaxPolls == 20
\* the maxDelay of the clients whose backoff reaches the cap within MaxTime
CapMaxDelay == 4
\* last clock value (seconds) the clock reaches while the server is followed
MaxTimeServer == 12
\* largest delaySeconds passed to NewServer
MaxDelayArg == 3

\* ---- configuration set by NewClient (units of 250ms) -------------------
DefaultInitialDelay == 2
DefaultMaxDelay == 40

\* ---- defaults of the server (seconds, percent) --------------------------
DefaultDelaySeconds == 10
DefaultErrorRate == 20

Procs == 1..NumProcs

VARIABLES
    \* fields of Client
    mu,            \* sync.Mutex: 0 when free, else the goroutine holding it
    status, attempt, delay, maxDelay, maxRetries,
    lastRequest, nextRequest, initialDelay, pending,
    \* environment
    now,           \* the monotonic clock read by time.Now()
    scripted,      \* TRUE when StatusSource follows the end-to-end script
    served,        \* fetches a scripted StatusSource has served
    \* one goroutine per inbound request
    pc,            \* position of each goroutine in HandleStatusRequest
    result,        \* (status, err) returned to it by RetrieveStatus
    w,             \* what it wrote to its http.ResponseWriter, in order
    \* history of the current invocation of each goroutine
    fetched,       \* it called RetrieveStatus
    waiters,       \* the polls that were waiting for the mutex when it found
                   \* the client eligible and went on to fetch
    nrSet,         \* the nextRequest it stored on a pending fetch (0: none)
    \* history of the current polling sequence
    seqOk,         \* fetches of the sequence that returned without error
    seqCacheHit,   \* some poll of the sequence was served from cache
    firstCompleted, \* served count when "completed" was first written (0: not yet)
    seqFetches,    \* calls of RetrieveStatus that returned in the sequence
    prevDelay,     \* the delay last passed to nextDelay in the sequence (-1: none)
    starter,       \* the goroutine that started the sequence, until it returns (0: none)
    lastPending,   \* time and stored delay of the last fetch answered pending (at 0: none)
    \* fields of Server and its Config
    srvStatus, startTime, delaySeconds, errorRate,
    \* history of the server
    replies        \* its last two responses, oldest first

client == <<status, attempt, delay, lastRequest, nextRequest, pending>>
config == <<maxDelay, maxRetries, initialDelay>>
env    == <<scripted, served>>
hist   == <<fetched, waiters, nrSet, seqOk, seqCacheHit, firstCompleted>>
hist2  == <<seqFetches, prevDelay, starter>>
hist3  == <<lastPending>>
server == <<srvStatus, startTime, delaySeconds, errorRate, replies>>
vars   == <<mu, client, config, now, env, pc, result, w, hist, hist2, hist3, server>>

NoResult == [err |-> FALSE, status |-> ""]

\* ---- StatusSource -------------------------------------------------------
\* what the server's statusHandler can answer
ServerStatuses == {"pending", "completed", "error"}

\* the end-to-end scenario's source: pending for the first 3 fetches, then completed
ScriptedStatus(n) == IF n <= 3 THEN "pending" ELSE "completed"

\* RetrieveStatus returns (response.Result, nil) or ("", err)
RetrieveOutcomes ==
    IF scripted
    THEN {[err |-> FALSE, status |-> ScriptedStatus(served + 1)]}
    ELSE {[err |-> FALSE, status |-> s] : s \in ServerStatuses}
         \cup {[err |-> TRUE, status |-> ""]}

\* ---- helpers of the handler ---------------------------------------------
\* a comparison with its operands swapped
BeforeSwapped(t, u) == u < t

\* a comparison that also holds at the instant itself
BeforeOrEqual(t, u) == t <= u

\* t.Before(u)
Before(t, u) == t < u

\* a ceiling test that fires one attempt early
RetriesOffByOne(a, m) == a + 1 >= m

\* a ceiling test that fires one attempt late
RetriesStrict(a, m) == a > m

\* if c.attempt >= c.maxRetries
RetriesExhausted(a, m) == a >= m

\* a sequence started by every poll
alwaysNewSequence(isPending, current) == TRUE

\* a sequence start that happens only on the first poll ever
needsNewSequenceOnce(isPending, current) == ~isPending /\ current = ""

\* if !c.pending
needsNewSequence(isPending, current) == ~isPending

\* every fetched status taken for pending
alwaysPending(fetchedStatus) == TRUE

\* if status == "pending"
stillPending(fetchedStatus) == fetchedStatus = "pending"

\* the fetched status dropped, the cached one kept
keepStatus(current, fetchedStatus) == current

\* c.status = status
adoptStatus(current, fetchedStatus) == fetchedStatus

\* a mutex left locked at return
noUnlock(holder) == holder

\* defer c.mu.Unlock(): the mutex after the handler of goroutine holder returned
deferredUnlock(holder) == 0

\* respondWithStatus: 200, Content-Type application/json, {"result": status}
respondWithStatus(s) == [code |-> 200, ctype |-> "application/json", body |-> [result |-> s]]

\* the error reported as an ordinary JSON status
respondWithErrorAsStatus(message) == respondWithStatus(message)

\* respondWithError: http.Error(w, message, 500), plain text
respondWithError(message) == [code |-> 500, ctype |-> "text/plain", body |-> message]

\* rand.Int63n(n): a value in [0, n)
Int63n(n) == 0..(n - 1)

\* the doubling without the cap
backoffBaseUncapped(currentDelay) ==
    IF currentDelay = 0 THEN initialDelay ELSE currentDelay * 2

\* the doubled and capped delay nextDelay takes the jitter of
backoffBase(currentDelay) ==
    LET d == IF currentDelay = 0 THEN initialDelay ELSE currentDelay * 2
    IN  IF d > maxDelay THEN maxDelay ELSE d

\* the jitter added to the whole base instead of its half
nextDelayOnBase(currentDelay, jitter) == backoffBase(currentDelay) + jitter

\* the jitter alone, the half of the base forgotten
nextDelayJitterOnly(currentDelay, jitter) == jitter

\* nextDelay, for the jitter rand.Int63n drew
nextDelay(currentDelay, jitter) == backoffBase(currentDelay) \div 2 + jitter

\* ---- initial state: NewClient -------------------------------------------
\* NewServer(delaySecondsArg, errorRateArg): the inputs validated, the job
\* started at the current time with status pending
NewServer(delaySecondsArg, errorRateArg) ==
    /\ delaySeconds = IF delaySecondsArg <= 0 THEN DefaultDelaySeconds ELSE delaySecondsArg
    /\ errorRate = IF errorRateArg < 0 \/ errorRateArg > 100
                   THEN DefaultErrorRate ELSE errorRateArg
    /\ startTime = now
    /\ srvStatus = "pending"
    /\ replies = <<>>

\* goroutines, environment and histories before the first request
InitRuntime ==
    /\ mu = 0
    /\ now = 1
    /\ served = 0
    /\ pc = [p \in Procs |-> "idle"]
    /\ result = [p \in Procs |-> NoResult]
    /\ w = [p \in Procs |-> <<>>]
    /\ fetched = [p \in Procs |-> FALSE]
    /\ waiters = [p \in Procs |-> {}]
    /\ nrSet = [p \in Procs |-> 0]
    /\ seqOk = 0
    /\ seqCacheHit = FALSE
    /\ firstCompleted = 0
    /\ seqFetches = 0
    /\ prevDelay = -1
    /\ starter = 0
    /\ lastPending = [at |-> 0, d |-> 0]

\* the runtime before the first request, and the server as NewServer leaves it
\* with the defaults of its flags
InitState == InitRuntime /\ NewServer(DefaultDelaySeconds, DefaultErrorRate)

\* the fields NewClient sets that are not configuration
InitFields ==
    /\ status = ""
    /\ attempt = 0
    /\ delay = 0
    /\ lastRequest = 0
    /\ nextRequest = 0
    /\ pending = FALSE

InitClient ==
    /\ InitState
    /\ InitFields
    /\ initialDelay = DefaultInitialDelay
    /\ maxDelay = DefaultMaxDelay
    /\ maxRetries = DefaultMaxRetries

Init == InitClient /\ scripted = FALSE

InitE2E == InitClient /\ scripted = TRUE

\* ---- actions ------------------------------------------------------------
\* the clock value at which the model stops the clock
Horizon == IF scripted THEN MaxTimeE2E ELSE MaxTime

\* the clock advances
Tick ==
    /\ now < Horizon
    /\ now' = now + 1
    /\ UNCHANGED <<mu, client, config, env, pc, result, w, hist, hist2, hist3, server>>

\* net/http starts HandleStatusRequest on a goroutine for a new GET /status
Request(p) ==
    /\ pc[p] \in {"idle", "done"}
    /\ served < MaxServed
    /\ pc' = [pc EXCEPT ![p] = "lock"]
    /\ result' = [result EXCEPT ![p] = NoResult]
    /\ w' = [w EXCEPT ![p] = <<>>]
    /\ fetched' = [fetched EXCEPT ![p] = FALSE]
    /\ waiters' = [q \in Procs |-> IF q = p THEN {} ELSE waiters[q] \ {p}]
    /\ nrSet' = [nrSet EXCEPT ![p] = 0]
    /\ UNCHANGED <<mu, client, config, now, env, seqOk, seqCacheHit, firstCompleted>>
    /\ UNCHANGED <<hist2, hist3, server>>

\* a Lock that does not wait for the holder
LockWithoutExclusion(p) == TRUE

\* c.mu.Lock() returns only once no other goroutine holds the mutex
LockAcquirable(p) == mu = 0

\* c.mu.Lock(), then the start of a new polling sequence when none is active
Lock(p) ==
    /\ pc[p] = "lock"
    /\ LockAcquirable(p)
    /\ mu' = p
    /\ pc' = [pc EXCEPT ![p] = "check"]
    /\ IF needsNewSequence(pending, status)
       THEN /\ pending' = TRUE
            /\ status' = "pending"
            /\ attempt' = 0
            /\ delay' = initialDelay
            /\ lastRequest' = 0
            /\ nextRequest' = now
            /\ seqOk' = 0
            /\ seqCacheHit' = FALSE
            /\ seqFetches' = 0
            /\ prevDelay' = -1
            /\ starter' = p
       ELSE UNCHANGED <<client, seqOk, seqCacheHit, hist2>>
    /\ UNCHANGED <<config, now, env, result, w, fetched, waiters, nrSet, firstCompleted>>
    /\ UNCHANGED <<hist3, server>>

\* now := time.Now(); served from cache before nextRequest, else attempt++ and
\* the call of RetrieveStatus
Check(p) ==
    /\ pc[p] = "check"
    /\ IF Before(now, nextRequest)
       THEN /\ w' = [w EXCEPT ![p] = Append(@, respondWithStatus(status))]
            /\ mu' = deferredUnlock(p)
            /\ pc' = [pc EXCEPT ![p] = "done"]
            /\ seqCacheHit' = TRUE
            /\ starter' = IF starter = p THEN 0 ELSE starter
            /\ UNCHANGED <<client, fetched, waiters>>
       ELSE /\ attempt' = attempt + 1
            /\ pc' = [pc EXCEPT ![p] = "fetch"]
            /\ fetched' = [fetched EXCEPT ![p] = TRUE]
            /\ waiters' = [waiters EXCEPT ![p] = {q \in Procs : pc[q] = "lock"}]
            /\ UNCHANGED <<mu, status, delay, lastRequest, nextRequest, pending,
                           w, seqCacheHit, starter>>
    /\ UNCHANGED <<config, now, env, result, nrSet, seqOk, firstCompleted>>
    /\ UNCHANGED <<seqFetches, prevDelay, hist3, server>>

\* RetrieveStatus returns: the server's answer, or an error (transport error,
\* timeout of the context, non-200, undecodable body)
RetrieveStatus(p) ==
    /\ pc[p] = "fetch"
    /\ \E r \in RetrieveOutcomes :
          result' = [result EXCEPT ![p] = r]
    /\ served' = IF scripted THEN served + 1 ELSE served
    /\ pc' = [pc EXCEPT ![p] = "post"]
    /\ seqFetches' = seqFetches + 1
    /\ UNCHANGED <<mu, client, config, now, scripted, w, hist, prevDelay, starter, hist3, server>>

\* the rest of the handler after RetrieveStatus returned, to the deferred Unlock
Finish(p) ==
    /\ pc[p] = "post"
    /\ pc' = [pc EXCEPT ![p] = "done"]
    /\ mu' = deferredUnlock(p)
    /\ result' = [result EXCEPT ![p] = NoResult]
    /\ IF result[p].err
       THEN IF RetriesExhausted(attempt, maxRetries)
            THEN /\ w' = [w EXCEPT ![p] = Append(@, respondWithError("Max retries reached"))]
                 /\ pending' = FALSE
                 /\ UNCHANGED <<status, attempt, delay, lastRequest, nextRequest,
                                nrSet, seqOk, firstCompleted, prevDelay, lastPending>>
            ELSE /\ lastRequest' = now
                 /\ w' = [w EXCEPT ![p] = Append(@, respondWithStatus(status))]
                 /\ UNCHANGED <<status, attempt, delay, nextRequest, pending,
                                nrSet, seqOk, firstCompleted, prevDelay, lastPending>>
       ELSE /\ status' = adoptStatus(status, result[p].status)
            /\ seqOk' = seqOk + 1
            /\ IF stillPending(result[p].status)
               THEN /\ \E jitter \in Int63n(backoffBase(delay) \div 2) :
                          /\ delay' = nextDelay(delay, jitter)
                          /\ nextRequest' = now + nextDelay(delay, jitter)
                          /\ nrSet' = [nrSet EXCEPT ![p] = now + nextDelay(delay, jitter)]
                          /\ lastPending' = [at |-> now, d |-> nextDelay(delay, jitter)]
                    /\ prevDelay' = delay
                    /\ UNCHANGED pending
               ELSE /\ pending' = FALSE
                    /\ UNCHANGED <<delay, nextRequest, nrSet, prevDelay, lastPending>>
            /\ lastRequest' = now
            /\ w' = [w EXCEPT ![p] = Append(@, respondWithStatus(status'))]
            /\ firstCompleted' =
                  IF firstCompleted = 0 /\ respondWithStatus(status').body.result = "completed"
                  THEN served ELSE firstCompleted
            /\ UNCHANGED attempt
    /\ starter' = IF starter = p THEN 0 ELSE starter
    /\ UNCHANGED <<config, now, env, fetched, waiters, seqCacheHit, seqFetches, server>>

Next ==
    \/ Tick
    \/ \E p \in Procs : Request(p)
    \/ \E p \in Procs : Lock(p)
    \/ \E p \in Procs : Check(p)
    \/ \E p \in Procs : RetrieveStatus(p)
    \/ \E p \in Procs : Finish(p)

Spec == Init /\ [][Next]_vars

SpecE2E == InitE2E /\ [][Next]_vars

\* Scheduling: a goroutine that can run does run, RetrieveStatus returns (its
\* context times out after c.timeout at the latest), and sync.Mutex hands the
\* mutex to a waiter that keeps waiting (starvation mode).
Fairness ==
    \A p \in Procs :
        /\ SF_vars(Lock(p))
        /\ WF_vars(Check(p))
        /\ WF_vars(RetrieveStatus(p))
        /\ WF_vars(Finish(p))

FairSpec == Spec /\ Fairness

\* ---- nextDelay on its own -------------------------------------------------
\* An eligible poll whose fetch is answered pending, reduced to what it does to
\* attempt and delay: c.attempt++ and c.delay = c.nextDelay(c.delay).
PendingPoll ==
    /\ attempt < MaxPolls
    /\ attempt' = attempt + 1
    /\ \E jitter \in Int63n(backoffBase(delay) \div 2) :
          delay' = nextDelay(delay, jitter)
    /\ prevDelay' = delay
    /\ UNCHANGED <<mu, status, lastRequest, nextRequest, pending, config, now, env,
                   pc, result, w, hist, seqFetches, starter, hist3, server>>

\* nextDelay called with any current delay in [0, maxDelay]
InitBackoff ==
    /\ InitState
    /\ scripted = FALSE
    /\ status = "pending"
    /\ attempt = 0
    /\ delay \in 0..DefaultMaxDelay
    /\ lastRequest = 0
    /\ nextRequest = now
    /\ pending = TRUE
    /\ initialDelay = DefaultInitialDelay
    /\ maxDelay = DefaultMaxDelay
    /\ maxRetries = DefaultMaxRetries

SpecBackoff == InitBackoff /\ [][PendingPoll]_vars

\* the client as the start of a polling sequence leaves it
InitPending ==
    /\ InitState
    /\ scripted = FALSE
    /\ status = "pending"
    /\ attempt = 0
    /\ delay = DefaultInitialDelay
    /\ lastRequest = 0
    /\ nextRequest = now
    /\ pending = TRUE
    /\ initialDelay = DefaultInitialDelay
    /\ maxDelay = DefaultMaxDelay
    /\ maxRetries = DefaultMaxRetries

SpecPending == InitPending /\ [][PendingPoll]_vars

\* ---- clients with another configuration ----------------------------------
\* a Client whose maxDelay is small enough for the backoff to reach the cap
\* within MaxTime, and whose maxRetries is any ceiling from 1 up
InitConfigs ==
    /\ InitState
    /\ InitFields
    /\ scripted = FALSE
    /\ initialDelay = DefaultInitialDelay
    /\ maxDelay = CapMaxDelay
    /\ maxRetries \in 1..DefaultMaxRetries

SpecConfigs == InitConfigs /\ [][Next]_vars

\* the initialDelay and maxDelay of the clients whose spacing of fetches is
\* followed: a maxDelay from below twice initialDelay to above it
SpacingInitialDelays == {DefaultInitialDelay, DefaultInitialDelay + 1}

SpacingMaxDelays == (CapMaxDelay - 1)..(CapMaxDelay + 1)

InitSpacing ==
    /\ InitState
    /\ InitFields
    /\ scripted = FALSE
    /\ initialDelay \in SpacingInitialDelays
    /\ maxDelay \in SpacingMaxDelays
    /\ maxRetries = DefaultMaxRetries

SpecSpacing == InitSpacing /\ [][Next]_vars

\* ---- shared by the properties -------------------------------------------
\* the one response a returned handler wrote
Resp(p) == w[p][1]

\* goroutine p returned from the handler in this step
Returns(p) == pc[p] # "done" /\ pc'[p] = "done"

\* ---- the simulated server ----------------------------------------------
\* the values of -delay and -error the server is started with
DelayArgs == -1..MaxDelayArg

ErrorRateArgs == {-1, 0, DefaultErrorRate, 100, 101}

\* a server whose job is never started anew
neverReset(current) == FALSE

\* if s.status != "pending"
needsReset(current) == current # "pending"

\* randomStatus: "error" if rand.Intn(100) < ErrorRate, else "completed"
randomStatus == {IF r < errorRate THEN "error" ELSE "completed" : r \in 0..99}

\* the record the history keeps of a response: its result, the time of the
\* request and the start time of the job it was answered for
Reply(r, at, jobStart) == [result |-> r, at |-> at, jobStart |-> jobStart]

\* the last two responses, oldest first, after one more
Remember(rs, r) == IF Len(rs) < 2 THEN Append(rs, r) ELSE <<rs[2], r>>

\* statusHandler, under s.mu from its first statement to its last: the reset
\* of a finished job, the draw of the final status once DelaySeconds have
\* elapsed, the response. Its two clock readings are taken less than a second
\* apart, so both are the same now.
statusHandler ==
    LET start == IF needsReset(srvStatus) THEN now ELSE startTime
        st    == IF needsReset(srvStatus) THEN "pending" ELSE srvStatus
        elapsed == now - start
    IN  /\ startTime' = start
        /\ \E final \in randomStatus :
              srvStatus' = IF st = "pending" /\ elapsed >= delaySeconds THEN final ELSE st
        /\ replies' = Remember(replies, Reply(srvStatus', now, start))
        /\ UNCHANGED <<mu, client, config, now, env, pc, result, w, hist, hist2,
                       hist3, delaySeconds, errorRate>>

\* the clock advances by a second
ServerTick ==
    /\ now < MaxTimeServer
    /\ now' = now + 1
    /\ UNCHANGED <<mu, client, config, env, pc, result, w, hist, hist2, hist3, server>>

InitServer ==
    /\ InitRuntime
    /\ InitFields
    /\ scripted = FALSE
    /\ initialDelay = DefaultInitialDelay
    /\ maxDelay = DefaultMaxDelay
    /\ maxRetries = DefaultMaxRetries
    /\ \E d \in DelayArgs, e \in ErrorRateArgs : NewServer(d, e)

NextServer == ServerTick \/ statusHandler

SpecServer == InitServer /\ [][NextServer]_vars

\* ---- C1 -----------------------------------------------------------------
\* C1: a poll handled while a sequence is active and now < nextRequest is
\* answered 200 with the cached status, does not call RetrieveStatus, and leaves
\* status, attempt, delay, nextRequest, lastRequest and pending as they were, so
\* any number of such polls in a row see the same status.
C1_CacheHitPath ==
    [][\A p \in Procs :
          (pc[p] = "check" /\ pc'[p] # "check" /\ pending /\ now < nextRequest)
          => /\ pc'[p] = "done"
             /\ ~fetched'[p]
             /\ w'[p] = <<[code |-> 200, ctype |-> "application/json",
                           body |-> [result |-> status]]>>
             /\ UNCHANGED <<status, attempt, delay, nextRequest, lastRequest, pending>>]_vars

\* every goroutine's last poll was served the cached pending without a fetch
C1_Witness ==
    \A p \in Procs :
        /\ pc[p] = "done"
        /\ ~fetched[p]
        /\ Resp(p).code = 200
        /\ Resp(p).body.result = "pending"

\* ---- C2 -----------------------------------------------------------------
\* C2: at most one goroutine is inside RetrieveStatus at any time, and a
\* goroutine is between the handler's Lock and its return exactly while it
\* holds c.mu.
C2_OneFetchInFlight ==
    /\ Cardinality({p \in Procs : pc[p] = "fetch"}) <= 1
    /\ \A p \in Procs : pc[p] \in {"check", "fetch", "post"} <=> mu = p

\* one goroutine is inside RetrieveStatus while every other one waits for the mutex
C2_Witness ==
    \E p \in Procs :
        /\ pc[p] = "fetch"
        /\ \A q \in Procs \ {p} : pc[q] = "lock"

\* a 200 response carrying status s
IsStatus(r, s) == r.code = 200 /\ r.ctype = "application/json" /\ r.body = [result |-> s]

\* the 500 response of the max-retries path
IsError(r) == r.code = 500 /\ r.ctype = "text/plain" /\ r.body = "Max retries reached"

\* goroutine p returns from a fetch that failed
FailedFetchReturns(p) == pc[p] = "post" /\ result[p].err /\ Returns(p)

\* ---- C3 -----------------------------------------------------------------
\* C3 as stated: of the polls that wait for the mutex while another poll finds
\* the client eligible and fetches, none calls RetrieveStatus itself, whatever
\* that fetch returned.
C3_Original ==
    \A p \in Procs : \A q \in waiters[p] : ~fetched[q]

\* C3 as amended: when the fetch of the poll that won the mutex returned
\* pending, a poll that was waiting for the mutex at that moment calls
\* RetrieveStatus only once the clock has reached the nextRequest that fetch
\* stored; before it, it is served from cache.
C3_OneFetchPerWindow ==
    \A p \in Procs : \A q \in waiters[p] :
        (nrSet[p] # 0 /\ fetched[q]) => now >= nrSet[p]

\* a poll that waited while another fetched pending was served the cached
\* pending without a fetch, before the stored nextRequest
C3_Witness ==
    \E p \in Procs : \E q \in waiters[p] :
        /\ nrSet[p] # 0
        /\ now < nrSet[p]
        /\ pc[p] = "done"
        /\ pc[q] = "done"
        /\ ~fetched[q]
        /\ IsStatus(Resp(q), "pending")

\* ---- C4 -----------------------------------------------------------------
\* C4: a poll whose fetch fails while attempt < maxRetries is answered 200 with
\* the cached pending, and a 500 is written only by a poll whose fetch failed
\* with attempt >= maxRetries.
C4_NoErrorWhileRetriesRemain ==
    [][\A p \in Procs :
          /\ (FailedFetchReturns(p) /\ attempt < maxRetries)
                => (w'[p] = <<respondWithStatus("pending")>> /\ status = "pending")
          /\ (Returns(p) /\ \E i \in 1..Len(w'[p]) : w'[p][i].code = 500)
                => (pc[p] = "post" /\ result[p].err /\ attempt >= maxRetries)]_vars

\* a poll whose fetch failed below the ceiling got 200 pending and the sequence goes on
C4_Witness ==
    \E p \in Procs :
        /\ pc[p] = "done"
        /\ fetched[p]
        /\ nrSet[p] = 0
        /\ IsStatus(Resp(p), "pending")
        /\ pending
        /\ attempt \in 1..(maxRetries - 1)
        /\ seqOk = 0

\* ---- C5 -----------------------------------------------------------------
\* C5: in a sequence in which every fetch so far failed, every poll fetches
\* (none is served from cache), the poll whose failure is number n < maxRetries
\* gets the cached status with 200 and leaves the sequence active, and the
\* poll whose failure is number maxRetries gets the error and ends the sequence.
C5_MaxRetriesFailures ==
    [][\A p \in Procs :
          (Returns(p) /\ seqOk = 0)
          => /\ pc[p] = "post"
             /\ ~seqCacheHit
             /\ attempt <= maxRetries
             /\ result[p].err =>
                   IF attempt < maxRetries
                   THEN w'[p] = <<respondWithStatus("pending")>> /\ pending'
                   ELSE IsError(Resp(p)') /\ Len(w'[p]) = 1 /\ ~pending']_vars

\* a sequence of maxRetries failed fetches has just ended with the error
C5_Witness ==
    /\ ~pending
    /\ seqOk = 0
    /\ attempt = maxRetries
    /\ \E p \in Procs : pc[p] = "done" /\ IsError(Resp(p))

C7_Rearm ==
    [][\A p \in Procs :
          (pc[p] = "lock" /\ pc'[p] # "lock" /\ ~pending)
          => /\ pc'[p] = "check"
             /\ w'[p] = <<>>
             /\ ~fetched'[p]
             /\ pending'
             /\ status' = "pending"
             /\ attempt' = 0
             /\ delay' = initialDelay
             /\ nextRequest' = now]_vars

\* a new sequence was started by the poll after one that got the max-retries
\* error and by the poll after one that got a terminal status
C7_Witness ==
    \E p \in Procs : \E q \in Procs \ {p} :
        /\ pc[p] = "check"
        /\ pending /\ status = "pending" /\ attempt = 0 /\ nextRequest = now
        /\ pc[q] = "done"
        /\ (IsError(Resp(q)) \/ IsStatus(Resp(q), "completed"))
        /\ now > 1

\* ---- C8 -----------------------------------------------------------------
\* C8: with a StatusSource that answers only pending, completed or error, every
\* handler that returns has written exactly one response: 200 with
\* {"result": s}, s one of pending, completed, error, or 500 with the plain
\* text message; and it is the 500 exactly when its fetch failed with
\* attempt >= maxRetries.
C8_ResponseContract ==
    [][\A p \in Procs :
          Returns(p)
          => /\ Len(w'[p]) = 1
             /\ \/ \E s \in {"pending", "completed", "error"} : IsStatus(w'[p][1], s)
                \/ IsError(w'[p][1])
             /\ w'[p][1].code = 500
                   <=> (pc[p] = "post" /\ result[p].err /\ attempt >= maxRetries)]_vars

\* the goroutines' last polls got a JSON status on one side and the 500 on the other
C8_Witness ==
    \E p \in Procs : \E q \in Procs \ {p} :
        /\ pc[p] = "done" /\ Len(w[p]) = 1 /\ IsError(Resp(p))
        /\ pc[q] = "done" /\ Len(w[q]) = 1
        /\ \E s \in {"completed", "error"} : IsStatus(Resp(q), s)

\* ---- C9 -----------------------------------------------------------------
\* the number of the first fetch the scripted StatusSource answers with completed
FirstCompletedFetch ==
    CHOOSE n \in 1..(MaxServed + NumProcs) :
        /\ ScriptedStatus(n) = "completed"
        /\ \A m \in 1..(n - 1) : ScriptedStatus(m) = "pending"

\* C9: with StatusSource answering pending to its first 3 fetches and completed
\* to the 4th, callers see only 200 pending until completed is returned; polls
\* that made no fetch see the cached pending; completed is returned by the poll
\* that made the 4th fetch, when exactly 4 fetches have been made.
C9_EndToEnd ==
    /\ firstCompleted = 0
          => \A p \in Procs : pc[p] = "done" => IsStatus(Resp(p), "pending")
    /\ \A p \in Procs : (pc[p] = "done" /\ ~fetched[p]) => IsStatus(Resp(p), "pending")
    /\ \A p \in Procs : pc[p] = "done" => Resp(p).code = 200
    /\ firstCompleted \in {0, FirstCompletedFetch}
    /\ (served >= FirstCompletedFetch /\ firstCompleted = 0)
          => (served = FirstCompletedFetch /\ \E p \in Procs : pc[p] = "post")

\* completed has just been returned by the poll that made the 4th fetch, after
\* a rapid poll of the other caller was served the cached pending
C9_Witness ==
    \E p \in Procs : \E q \in Procs \ {p} :
        /\ served = FirstCompletedFetch
        /\ firstCompleted = FirstCompletedFetch
        /\ pc[p] = "done" /\ fetched[p] /\ IsStatus(Resp(p), "completed")
        /\ pc[q] = "done" /\ ~fetched[q] /\ IsStatus(Resp(q), "pending")
        /\ attempt = FirstCompletedFetch

\* ---- C10 ----------------------------------------------------------------
\* goroutine p is between the handler's Lock and its return
Holding(p) == pc[p] \in {"check", "fetch", "post"}

\* C10: under fair scheduling, with RetrieveStatus returning within its
\* timeout, every invocation of the handler eventually returns with its
\* response written, and the mutex is free whenever no handler is past Lock.
C10_NoPollHangs ==
    /\ \A p \in Procs :
          (pc[p] \in {"lock", "check", "fetch", "post"})
             ~> (pc[p] = "done" /\ Len(w[p]) = 1)
    /\ []((\A p \in Procs : ~Holding(p)) => mu = 0)

\* every caller has been answered and the mutex is free after a cache hit, a
\* max-retries error and an ordinary fetch
C10_Witness ==
    /\ mu = 0
    /\ \A p \in Procs : pc[p] = "done" /\ Len(w[p]) = 1
    /\ \E p \in Procs : IsError(Resp(p))
    /\ \E p \in Procs : ~fetched[p] /\ IsStatus(Resp(p), "pending")

\* ---- C11 ----------------------------------------------------------------
\* the base claimed for nextDelay(current): initialDelay when current is 0,
\* else the smaller of 2*current and maxDelay; capped at maxDelay
ClaimedBase(current) ==
    LET b == IF current = 0 THEN initialDelay
             ELSE IF current * 2 <= maxDelay THEN current * 2 ELSE maxDelay
    IN  IF b <= maxDelay THEN b ELSE maxDelay

\* C11: for every current in [0, maxDelay] and every jitter, nextDelay(current)
\* is in [base/2, base), base being initialDelay when current is 0 and
\* min(2*current, maxDelay) otherwise, and is below maxDelay.
C11_NextDelayRange ==
    prevDelay # -1
    => /\ prevDelay \in 0..maxDelay
       /\ delay >= ClaimedBase(prevDelay) \div 2
       /\ delay < ClaimedBase(prevDelay)
       /\ 2 * delay >= ClaimedBase(prevDelay)
       /\ delay < maxDelay

\* nextDelay was called with the largest current and drew the largest jitter
C11_Witness ==
    /\ attempt = 1
    /\ prevDelay = maxDelay
    /\ delay = maxDelay - 1

\* ---- C12 ----------------------------------------------------------------
\* C12: in every reachable state attempt is at most maxRetries, whatever the
\* interleaving of pending fetches and transport failures in the sequence.
C12_AttemptWithinCeiling ==
    attempt <= maxRetries

\* ---- C13 ----------------------------------------------------------------
\* C13 as stated: with StatusSource always answering pending, each delay of the
\* 20 successive eligible polls is at least the one before it and none exceeds
\* maxDelay.
C13_Original ==
    [][delay' >= delay /\ delay' <= maxDelay]_vars

\* C13 as amended: no delay reaches maxDelay, and a delay is at least the one
\* before it as long as doubling that one stays within maxDelay; once the
\* doubling is capped, the next delay is anywhere in [maxDelay/2, maxDelay) and
\* may be smaller than the one before.
C13_MonotoneBelowCap ==
    [][/\ delay' < maxDelay
       /\ delay * 2 <= maxDelay => delay' >= delay
       /\ delay * 2 > maxDelay => delay' >= maxDelay \div 2]_vars

\* the delay grew from initialDelay to a value past maxDelay/2 and then fell
C13_Witness ==
    /\ attempt \in 2..MaxPolls
    /\ prevDelay * 2 > maxDelay
    /\ delay < prevDelay
    /\ delay = maxDelay \div 2

\* ---- C14 ----------------------------------------------------------------
\* C14: in every reachable state of the Client, before the first poll, at a
\* sequence start, after pending fetches, failures and terminal outcomes, the
\* stored delay is within [0, maxDelay].
C14_DelayWithinMax ==
    delay \in 0..maxDelay

\* a pending fetch took the capped base and stored the largest delay it allows
C14_Witness ==
    /\ prevDelay # -1
    /\ prevDelay * 2 > maxDelay
    /\ delay = maxDelay - 1
    /\ seqOk >= 2
    /\ \E p \in Procs : pc[p] = "done" /\ nrSet[p] = now + delay

\* ---- C15 ----------------------------------------------------------------
\* goroutine p starts a sequence in this step
StartsSequence(p) == pc[p] = "lock" /\ pc'[p] = "check" /\ needsNewSequence(pending, status)

\* goroutine p returns from a fetch that answered pending
PendingFetchReturns(p) ==
    pc[p] = "post" /\ ~result[p].err /\ result[p].status = "pending" /\ Returns(p)

\* C15: a fetch that fails with attempt < maxRetries leaves status, delay,
\* nextRequest and pending unchanged and records lastRequest, the call having
\* counted the attempt, so the next poll is eligible again at once; the delay
\* changes only at a sequence start and on a successful pending fetch.
C15_FailureBelowCeilingFrame ==
    [][/\ \A p \in Procs :
             /\ pc[p] = "check" /\ pc'[p] = "fetch"
                => /\ attempt' = attempt + 1
                   /\ UNCHANGED <<status, delay, lastRequest, nextRequest, pending>>
             /\ pc[p] = "fetch" /\ pc'[p] = "post" => UNCHANGED client
             /\ FailedFetchReturns(p) /\ attempt < maxRetries
                => /\ UNCHANGED <<status, attempt, delay, nextRequest, pending>>
                   /\ lastRequest' = now
                   /\ pending' /\ status' = "pending"
                   /\ ~Before(now', nextRequest')
                   /\ IsStatus(w'[p][1], status)
       /\ delay' # delay
          => \E p \in Procs : StartsSequence(p) \/ PendingFetchReturns(p)]_vars

\* a fetch failed below the ceiling and the next poll is fetching again at the
\* same instant, with the delay of the sequence start
C15_Witness ==
    \E p, q \in Procs :
        /\ pc[p] = "done" /\ fetched[p] /\ IsStatus(Resp(p), "pending")
        /\ pc[q] = "fetch"
        /\ attempt = 2 /\ seqFetches = 1 /\ seqOk = 0
        /\ lastRequest = now
        /\ delay = initialDelay

\* ---- C16 ----------------------------------------------------------------
\* C16: a call that made an upstream fetch records lastRequest at its return,
\* whatever the fetch gave (pending, terminal, a failure below the ceiling, a
\* failure at the ceiling); a call served from cache leaves lastRequest as it was.
C16_LastRequestOnEveryFetch ==
    [][\A p \in Procs :
          Returns(p) => IF fetched[p] THEN lastRequest' = now
                                     ELSE lastRequest' = lastRequest]_vars

C19_CacheOnlyPending ==
    /\ [](/\ mu = 0 /\ pending => status = "pending"
          /\ \A p \in Procs :
                pc[p] = "done" /\ ~fetched[p] => IsStatus(Resp(p), "pending"))
    /\ [][\A p \in Procs :
            Returns(p) /\ ~IsStatus(w'[p][1], "pending") /\ ~IsError(w'[p][1])
            => /\ pc[p] = "post" /\ ~result[p].err
               /\ result[p].status \in {"completed", "error"}
               /\ IsStatus(w'[p][1], result[p].status)
               /\ ~pending']_vars

\* one poll was served pending from cache, and later another one fetched
\* completed and returned it, ending the sequence
C19_Witness ==
    \E p, q \in Procs :
        /\ pc[p] = "done" /\ fetched[p] /\ IsStatus(Resp(p), "completed")
        /\ pc[q] = "done" /\ ~fetched[q] /\ IsStatus(Resp(q), "pending")
        /\ seqCacheHit /\ ~pending /\ status = "completed"
        /\ mu = 0

\* ---- C20 ----------------------------------------------------------------
\* C20: the poll that starts a sequence is eligible when it tests the clock,
\* makes exactly one fetch, and returns with attempt = 1 and the response of
\* that fetch: the fetched status, or pending if the fetch failed, or the error
\* if it failed and maxRetries <= 1.
C20_StarterFetches ==
    /\ [](\A p \in Procs :
            starter = p /\ pc[p] = "check" => ~Before(now, nextRequest) /\ attempt = 0)
    /\ [][\A p \in Procs :
            Returns(p) /\ starter = p
            => /\ pc[p] = "post" /\ fetched[p]
               /\ attempt' = 1 /\ seqFetches = 1
               /\ IF ~result[p].err THEN IsStatus(w'[p][1], result[p].status)
                  ELSE IF maxRetries <= 1 THEN IsError(w'[p][1])
                  ELSE IsStatus(w'[p][1], "pending")]_vars

\* with maxRetries = 1 the poll that started the sequence returned the error
\* of its one failed fetch
C20_Witness ==
    \E p \in Procs :
        /\ pc[p] = "done" /\ fetched[p] /\ IsError(Resp(p))
        /\ maxRetries = 1 /\ attempt = 1 /\ seqFetches = 1
        /\ ~pending /\ starter = 0

\* ---- C17 ----------------------------------------------------------------
\* a completed or error result
Terminal(r) == r \in {"completed", "error"}

\* C17: every response of the server is pending, error or completed; a
\* terminal one answers a request made at least DelaySeconds after the start of
\* its job; the request after a terminal response starts the job anew at its
\* own time and is answered pending, so no two consecutive responses are both
\* terminal.
C17_ServerLifecycle ==
    /\ delaySeconds >= 1
    /\ \A i \in 1..Len(replies) :
          /\ replies[i].result \in ServerStatuses
          /\ Terminal(replies[i].result) => replies[i].at - replies[i].jobStart >= delaySeconds
    /\ Len(replies) >= 1 => /\ srvStatus = replies[Len(replies)].result
                            /\ startTime = replies[Len(replies)].jobStart
    /\ Len(replies) = 2 /\ Terminal(replies[1].result)
       => /\ replies[2].result = "pending"
          /\ replies[2].jobStart = replies[2].at
          /\ replies[2].at >= replies[1].at

\* the server of the default delay answered error once the delay had passed,
\* and the next request, a second later, found the job started anew
C17_Witness ==
    /\ delaySeconds = DefaultDelaySeconds
    /\ Len(replies) = 2
    /\ replies[1].result = "error"
    /\ replies[1].at = replies[1].jobStart + delaySeconds
    /\ replies[2].result = "pending"
    /\ replies[2].at = replies[1].at + 1
    /\ startTime = now

\* ---- C21 ----------------------------------------------------------------
\* the smaller of two numbers
Min(a, b) == IF a <= b THEN a ELSE b

\* C21: with initialDelay >= 2, the delay stored during a sequence is at least
\* min(initialDelay, maxDelay \div 2) whatever the jitter, nextDelay is never
\* called with 0 from the handler, and after a fetch answered pending at time t
\* that stored delay d no call of RetrieveStatus is started before t + d.
C21_MinimumSpacing ==
    /\ [](initialDelay >= 2
          => /\ pending => delay >= Min(initialDelay, maxDelay \div 2)
             /\ prevDelay # 0
             /\ lastPending.at # 0 => lastPending.d >= Min(initialDelay, maxDelay \div 2))
    /\ [][initialDelay >= 2
          => \A p \in Procs :
                pc[p] = "check" /\ pc'[p] = "fetch"
                => now >= lastPending.at + lastPending.d]_vars

\* a client whose initialDelay is above half its maxDelay stored a delay below
\* initialDelay, and a later poll is fetching exactly when that delay has passed
C21_Witness ==
    \E p \in Procs :
        /\ pc[p] = "fetch"
        /\ lastPending.at # 0
        /\ now = lastPending.at + lastPending.d
        /\ delay = lastPending.d
        /\ delay = maxDelay \div 2
        /\ delay < initialDelay
        /\ seqFetches >= 1
====
